---------------------------- MODULE Spec2Model ----------------------------
(* Model of download_artifacts.py: discovery of the Fedora container      *)
(* artifacts per architecture (with date-shift retry), their concurrent   *)
(* download on a ThreadPoolExecutor, and the extraction of each download  *)
(* by the coordinating thread, with the files it leaves on disk.  The     *)
(* functions generate_url_variants, the layer isolation and the version   *)
(* label of process_artifact are also applied on their own.               *)
EXTENDS Integers, Sequences, FiniteSets, TLC

(***************************************************************************)
(* Bounds of the model                                                     *)
(***************************************************************************)
\* largest --max-days-back explored for one traced locate call
MaxDaysBack == 3
\* largest --max-days-back explored in a whole run
MaxRunDaysBack == 1
\* largest --workers explored
MaxWorkers == 2
\* most archives of one architecture in one directory listing
MaxLinks == 2
\* most downloads submitted in one run
MaxTasks == 2
\* most manifests in an index, and most layers in a manifest
MaxEntries == 2

(***************************************************************************)
(* Program constants                                                       *)
(***************************************************************************)
\* main: architectures = ["aarch64", "ppc64le", "s390x", "x86_64"]
architectures == <<"aarch64", "ppc64le", "s390x", "x86_64">>

\* Python's None and a present value, for return_on_404
None == [isNone |-> TRUE, val |-> <<>>]
Some(v) == [isNone |-> FALSE, val |-> v]

(***************************************************************************)
(* Dates: get_current_date / get_previous_date work on %Y%m%d stamps,     *)
(* kept here as the integer the eight digits spell.                       *)
(***************************************************************************)
IsLeap(y) == (y % 4 = 0 /\ y % 100 # 0) \/ y % 400 = 0

\* a calendar without leap years
DaysInMonthNoLeap(y, m) ==
    IF m = 2 THEN 28 ELSE IF m \in {4, 6, 9, 11} THEN 30 ELSE 31

DaysInMonth(y, m) ==
    IF m = 2 THEN (IF IsLeap(y) THEN 29 ELSE 28)
    ELSE IF m \in {4, 6, 9, 11} THEN 30 ELSE 31

\* date_obj - timedelta(days=1), on a stamp
PrevDay(d) ==
    LET y == d \div 10000
        m == (d \div 100) % 100
        dd == d % 100
    IN  IF dd > 1 THEN d - 1
        ELSE IF m > 1 THEN y * 10000 + (m - 1) * 100 + DaysInMonth(y, m - 1)
        ELSE (y - 1) * 10000 + 1231

RECURSIVE get_previous_date(_, _)
get_previous_date(date_str, days_back) ==
    IF days_back = 0 THEN date_str
    ELSE get_previous_date(PrevDay(date_str), days_back - 1)

(***************************************************************************)
(* URLs.  A koji directory URL is                                          *)
(*   .../Fedora-Container-Base-Generic/<dir>/<stamp>.<compose>/images/     *)
(* with compose "n.0" (rawhide, branched) or "0" (released versions).     *)
(***************************************************************************)
\* base_url.replace(f"{old}.{compose}", f"{new}.{compose}")
ReplaceStamp(url, compose, old, new) ==
    IF url.compose = compose /\ url.stamp = old
    THEN [url EXCEPT !.stamp = new]
    ELSE url

generate_url_variants(base_url, date_str, max_days) ==
    [k \in 1..(max_days + 1) |->
        IF k = 1 THEN base_url
        ELSE IF base_url.compose = "n.0"
             THEN ReplaceStamp(base_url, "n.0", date_str,
                               get_previous_date(date_str, k - 1))
             ELSE ReplaceStamp(base_url, "0", date_str,
                               get_previous_date(date_str, k - 1))]


(***************************************************************************)
(* The remote side: what one GET of a directory listing can answer.       *)
(***************************************************************************)
\* file stems the build server publishes
Stems == {"Base", "Minimal"}

\* an architecture other than the one being located
Foreign(architecture) ==
    IF architecture = architectures[1] THEN architectures[2] ELSE architectures[1]

\* the href of an <a> element is "<stem>.<arch><ext>": the archives the build
\* server publishes for an architecture
Archives(architecture) == [stem : Stems, arch : {architecture}, ext : {".tar.xz"}]

\* links of a listing that are no archive of the architecture
OtherLinks(architecture) ==
    <<[stem |-> "Base", arch |-> architecture, ext |-> ".json"],
      [stem |-> "Base", arch |-> Foreign(architecture), ext |-> ".tar.xz"]>>

SeqsUpTo(S, n) == UNION {[1..k -> S] : k \in 0..n}

\* the archives of a listing, in document order: none, or the Base image
\* followed by further archives, which may repeat it (a listing that starts
\* with another stem is the same listing with the stems renamed)
ArchiveLists(architecture) ==
    {l \in SeqsUpTo(Archives(architecture), MaxLinks) : l = <<>> \/ l[1].stem = "Base"}

\* the <a> elements of a directory listing, in document order
Listings(architecture) ==
    ArchiveLists(architecture)
    \cup {OtherLinks(architecture) \o l : l \in ArchiveLists(architecture)}

\* status codes and transport failures of one listing request
Responses(architecture) ==
    [kind : {"status"}, status : {200}, links : Listings(architecture)]
    \cup [kind : {"status"}, status : {404, 500}, links : {<<>>}]
    \cup [kind : {"network"}, status : {0}, links : {<<>>}]

\* link.get("href").endswith(".tar.xz") and architecture in link.get("href")
Keep(link, architecture) == link.ext = ".tar.xz" /\ link.arch = architecture

RECURSIVE Filter(_, _, _)
\* the list comprehension building file_urls
Filter(links, url, architecture) ==
    IF links = <<>> THEN <<>>
    ELSE LET link == Head(links)
             rest == Filter(Tail(links), url, architecture)
         IN  IF Keep(link, architecture)
             THEN <<[url |-> [dir |-> url, href |-> link],
                     filename |-> [arch |-> architecture, href |-> link]]>> \o rest
             ELSE rest

\* the undecorated body of download_artifacts_for_architecture
fetch_listing(resp, url, architecture) ==
    IF resp.kind = "network"
    THEN [exc |-> "RequestError", status |-> 0, val |-> <<>>]
    ELSE IF resp.status >= 400
    THEN [exc |-> "HTTPStatusError", status |-> resp.status, val |-> <<>>]
    ELSE [exc |-> "", status |-> resp.status,
          val |-> Filter(resp.links, url, architecture)]

\* the test written as `if return_on_404:`, which an empty list fails
HasReturnOn404Truthy(return_on_404) ==
    ~return_on_404.isNone /\ return_on_404.val # <<>>

\* the decorator's test on return_on_404 in its 404 branch
HasReturnOn404(return_on_404) == ~return_on_404.isNone

\* the decorator: what the wrapped call returns or raises
handle_http_errors(out, return_on_404) ==
    IF out.exc = "" THEN [raised |-> FALSE, val |-> out.val]
    ELSE IF out.exc = "HTTPStatusError" /\ out.status = 404
            /\ HasReturnOn404(return_on_404)
    THEN [raised |-> FALSE, val |-> return_on_404.val]
    ELSE [raised |-> TRUE, val |-> <<>>]

\* @handle_http_errors("Fetching artifacts for architecture", return_on_404=[])
download_artifacts_for_architecture(resp, url, architecture) ==
    handle_http_errors(fetch_listing(resp, url, architecture), Some(<<>>))

\* status codes and transport failures of one artifact download; a transport
\* failure comes before any status or while the body of a 200 is streamed
DownloadResponses ==
    [kind : {"status"}, status : {200, 404, 500}] \cup [kind : {"network"}, status : {0, 200}]

\* open(output_path, "wb") is reached: raise_for_status() let the response pass
OpensOutput(resp) == resp.status = 200

\* @handle_http_errors("Downloading file"): TRUE when the call returns output_path
download_file(resp) ==
    ~handle_http_errors([exc |-> IF resp.kind = "network" THEN "RequestError"
                                  ELSE IF resp.status >= 400 THEN "HTTPStatusError"
                                  ELSE "",
                         status |-> resp.status, val |-> <<>>], None).raised

(***************************************************************************)
(* State of one run of main                                                *)
(***************************************************************************)
VARIABLES
    no_retry,       \* --no-retry
    max_days_back,  \* --max-days-back
    workers,        \* --workers
    base_url,       \* main's base_url
    pc,             \* where the coordinating thread is
    arch,           \* index in architectures of the architecture being located
    i,              \* variants already probed by the running locate call
    tasks,          \* future_to_url: the submitted futures, in submission order
    yielded,        \* futures as_completed has handed to the loop body
    cur,            \* the future whose result is being extracted (0: none)
    extracted,      \* futures whose decompress_artifact returned
    abortCause,     \* the stage whose exception is leaving main ("": none)
    discoveryError, \* first architecture (index) with a listing request that
                    \* failed other than by a 404 (0: none)
    call,           \* trace of one download_artifacts_with_retry call, when traced
    fs,             \* the files under output_dir
    args,           \* arguments of a function applied on its own
    ret             \* what that function returned

vars == <<no_retry, max_days_back, workers, base_url, pc, arch, i, tasks,
          yielded, cur, extracted, abortCause, discoveryError, call, fs,
          args, ret>>

\* the variables of a function applied on its own
pure == <<args, ret>>

params == <<no_retry, max_days_back, workers, base_url>>

\* date.today() on the day of the run (the run does not span midnight)
RunDates == {20240101, 20240301}

get_current_date == base_url.stamp

\* get_tar_name(): f"fedora-{current_date}.tar"
get_tar_name == <<"fedora-", ToString(get_current_date), ".tar">>

NArch == Len(architectures)

Terminal(t) == tasks[t].state \in {"success", "failure"}
Running == {t \in DOMAIN tasks : tasks[t].state = "running"}
Queued == {t \in DOMAIN tasks : tasks[t].state = "queued"}
Pending == {t \in DOMAIN tasks : ~Terminal(t)}

\* the trace before the call starts
NoCall == [arch |-> 0, status |-> "idle", probed |-> <<>>, outcomes |-> <<>>,
           last |-> [kind |-> "", status |-> 0, links |-> <<>>], result |-> <<>>]

InitRun ==
    /\ pc = "locate"
    /\ i = 0
    /\ tasks = <<>>
    /\ yielded = {}
    /\ cur = 0
    /\ extracted = {}
    /\ abortCause = ""
    /\ discoveryError = 0
    /\ call = NoCall
    /\ fs = {}
    /\ args = <<>>
    /\ ret = <<>>

\* no run of main: a function is applied on its own to `args`
NoRun ==
    /\ no_retry = FALSE
    /\ max_days_back = 0
    /\ workers = 1
    /\ base_url = [compose |-> "n.0", stamp |-> 20240101]
    /\ arch = 1
    /\ i = 0
    /\ tasks = <<>>
    /\ yielded = {}
    /\ cur = 0
    /\ extracted = {}
    /\ abortCause = ""
    /\ discoveryError = 0
    /\ call = NoCall
    /\ fs = {}
    /\ pc = "call"
    /\ ret = <<>>

\* the applied function returns value v
Returns(v) ==
    /\ pc = "call"
    /\ pc' = "returned"
    /\ ret' = v
    /\ UNCHANGED <<params, arch, i, tasks, yielded, cur, extracted, abortCause,
                   discoveryError, call, fs, args>>

\* main(version, output_dir, workers, max_days_back, no_retry) up to its loop
Init ==
    /\ no_retry \in BOOLEAN
    /\ max_days_back = MaxRunDaysBack
    /\ workers \in 1..MaxWorkers
    /\ base_url = [compose |-> "n.0", stamp |-> 20240101]
    /\ arch = 1
    /\ InitRun

(***************************************************************************)
(* Files.  A path under output_dir is a directory (one per architecture)  *)
(* and a file name, kept as <<stem, middle, extension>>.                   *)
(***************************************************************************)
\* output_path = os.path.join(output_dir, filename)
output_path(filename) ==
    [dir |-> filename.arch,
     name |-> <<filename.href.stem, filename.href.arch, filename.href.ext>>]

\* artifact_path.rstrip(".xz"): a path ending in .tar.xz loses the trailing
\* characters among ".", "x", "z", which leaves it ending in .tar
tar_path(artifact_path) == [artifact_path EXCEPT !.name[3] = ".tar"]

IndexJson(d) == [dir |-> d, name |-> <<"index", "", ".json">>]
OciLayout(d) == [dir |-> d, name |-> <<"oci-layout", "", "">>]
Blobs(d) == [dir |-> d, name |-> <<"blobs", "", "">>]
\* os.path.join(extracted_path, tar_name)
LayerFile(d) == [dir |-> d, name |-> get_tar_name]
Dockerfile(d) == [dir |-> d, name |-> <<"Dockerfile", "", "">>]

\* the entries an archive holds: an image layout, or one that lacks its
\* oci-layout file or its index.json
ArchiveContents ==
    {{"index.json", "oci-layout", "blobs"}, {"index.json", "blobs"}, {"oci-layout", "blobs"}}

\* tar.extractall(path=os.path.dirname(tar_path))
Entries(d, content) ==
    {f \in {IndexJson(d), OciLayout(d), Blobs(d)} :
        \/ f = IndexJson(d) /\ "index.json" \in content
        \/ f = OciLayout(d) /\ "oci-layout" \in content
        \/ f = Blobs(d) /\ "blobs" \in content}

\* a clean-up that removes the blob store only
delete_only_blobs(files, d) == [raised |-> FALSE, files |-> files \ {Blobs(d)}]

\* shutil.rmtree(blobs, ignore_errors=True); os.remove(index.json);
\* os.remove(oci-layout): os.remove raises when the file is missing
delete_extraction_artifacts(files, d) ==
    LET blobless == files \ {Blobs(d)}
    IN  IF IndexJson(d) \notin blobless
        THEN [raised |-> TRUE, files |-> blobless]
        ELSE IF OciLayout(d) \notin blobless
        THEN [raised |-> TRUE, files |-> blobless \ {IndexJson(d)}]
        ELSE [raised |-> FALSE, files |-> blobless \ {IndexJson(d), OciLayout(d)}]

\* process_artifact(extracted_path, version) on the files of the directory:
\* read index.json and the blobs, copy the layer, write the Dockerfile, clean up
process_artifact(files, d) ==
    IF IndexJson(d) \notin files \/ Blobs(d) \notin files
    THEN [raised |-> TRUE, files |-> files]
    ELSE delete_extraction_artifacts(files \cup {LayerFile(d), Dockerfile(d)}, d)

(***************************************************************************)
(* Discovery: download_artifacts_with_retry, called from main's loop over *)
(* the architectures, and the submission of what it returns.              *)
(***************************************************************************)
\* executor.submit(download_file, client, file_url, output_path);
\* future_to_url[future] = filename
Submit(found) ==
    tasks \o [k \in 1..Len(found) |->
                [filename |-> found[k].filename, state |-> "queued"]]

\* the locate call returns `found`; main submits it and moves on
Return(found) ==
    /\ tasks' = Submit(found)
    /\ arch' = arch + 1
    /\ i' = 0
    /\ pc' = IF arch = NArch THEN "as_completed" ELSE "locate"
    /\ abortCause' = abortCause

\* an exception leaves main: the with-blocks unwind
Raise(cause) ==
    /\ pc' = "unwinding"
    /\ abortCause' = cause

Outcome(resp, r) ==
    IF r.raised THEN "error"
    ELSE IF resp.kind = "status" /\ resp.status = 404 THEN "notfound"
    ELSE IF r.val = <<>> THEN "empty" ELSE "found"

\* the error messages printed so far name a failed listing request
Noted(r) == IF r.raised /\ discoveryError = 0 THEN arch ELSE discoveryError

\* the trace of the call after one more request
Traced(url, q, status) ==
    [arch |-> arch, status |-> status,
     probed |-> (IF i = 0 THEN <<>> ELSE call.probed) \o <<url>>,
     outcomes |-> (IF i = 0 THEN <<>> ELSE call.outcomes) \o <<q.outcome>>,
     last |-> q.resp,
     result |-> IF status = "returned" /\ ~q.r.raised THEN q.r.val ELSE <<>>]

\* a call that ignores no_retry
UseRetryAlways == TRUE

\* if no_retry:
UseRetry == ~no_retry

\* one request of a listing and what the decorated call makes of it; an
\* untraced run keeps the result and forgets the response
Request(resp, r, traced) ==
    [resp |-> IF traced THEN resp ELSE NoCall.last, r |-> r, outcome |-> Outcome(resp, r)]

Requests(url, architecture, traced) ==
    UNION {{Request(resp, r, traced) :
                r \in {download_artifacts_for_architecture(resp, url, architecture)}}
            : resp \in Responses(architecture)}

\* return download_artifacts_for_architecture(client, base_url, architecture)
LocateNoRetry(traced) ==
    /\ ~UseRetry
    /\ \E q \in Requests(base_url, architectures[arch], traced) :
        /\ Len(tasks) + Len(q.r.val) <= MaxTasks
        /\ IF q.r.raised
           THEN /\ Raise("discovery")
                /\ UNCHANGED <<tasks, arch, i>>
           ELSE Return(q.r.val)
        /\ discoveryError' = Noted(q.r)
        /\ call' = IF traced
                   THEN Traced(base_url, q,
                               IF q.r.raised THEN "raised" ELSE "returned")
                   ELSE call
        /\ UNCHANGED <<params, yielded, cur, extracted, fs, pure>>

\* a retry loop without its except clause
CatchesNothing == FALSE

\* try: ... except Exception as e: print(...); continue
CatchesInLoop == TRUE

\* a retry loop that never returns from inside the loop
ContinueAlways(r) == TRUE

\* whether the retry loop goes on to the next variant after this outcome:
\* file_urls empty, or an exception caught in the loop
ContinueAfter(r) == r.raised \/ r.val = <<>>

\* one pass of: for i, url in enumerate(url_variants)
ProbeUrl(traced, url, last) ==
    \E q \in Requests(url, architectures[arch], traced) :
        /\ Len(tasks) + Len(q.r.val) <= MaxTasks
        /\ IF q.r.raised /\ ~CatchesInLoop
           THEN /\ Raise("discovery")
                /\ UNCHANGED <<tasks, arch, i>>
           ELSE IF ~ContinueAfter(q.r)
           THEN Return(q.r.val)
           ELSE IF last
           THEN Return(<<>>)
           ELSE /\ i' = i + 1
                /\ UNCHANGED <<tasks, arch, pc, abortCause>>
        /\ discoveryError' = Noted(q.r)
        /\ call' = IF traced
                   THEN Traced(url, q,
                               IF q.r.raised /\ ~CatchesInLoop THEN "raised"
                               ELSE IF ~ContinueAfter(q.r) \/ last THEN "returned"
                               ELSE "active")
                   ELSE call
        /\ UNCHANGED <<params, yielded, cur, extracted, fs, pure>>

\* the retry loop of download_artifacts_with_retry, one request at a time
Probe(traced) ==
    /\ UseRetry
    /\ \E url_variants \in
            {generate_url_variants(base_url, get_current_date, max_days_back)} :
         ProbeUrl(traced, url_variants[i + 1], i + 1 = Len(url_variants))

download_artifacts_with_retry(traced) ==
    /\ pc = "locate"
    /\ (LocateNoRetry(traced) \/ Probe(traced))

(***************************************************************************)
(* The worker threads of ThreadPoolExecutor(max_workers=workers)          *)
(***************************************************************************)
\* a pool that starts a thread for every work item
WorkerAlwaysFree == TRUE

\* a worker may take a work item while fewer than max_workers are busy
WorkerFree == Cardinality(Running) < workers

\* an idle worker takes the oldest queued work item
StartDownload ==
    /\ Queued # {}
    /\ WorkerFree
    /\ LET t == CHOOSE q \in Queued : \A o \in Queued : q <= o
       IN  tasks' = [tasks EXCEPT ![t].state = "running"]
    /\ UNCHANGED <<params, pc, arch, i, yielded, cur, extracted, abortCause, discoveryError, call, fs, pure>>

\* download_file returns or raises; the future holds the result or the exception
FinishDownload ==
    \E t \in Running : \E resp \in DownloadResponses :
        /\ tasks' = [tasks EXCEPT ![t].state =
                        IF download_file(resp) THEN "success" ELSE "failure"]
        /\ fs' = IF OpensOutput(resp) THEN fs \cup {output_path(tasks[t].filename)}
                  ELSE fs
        /\ UNCHANGED <<params, pc, arch, i, yielded, cur, extracted, abortCause, discoveryError, call, pure>>

(***************************************************************************)
(* main's completion loop: for future in as_completed(future_to_url)      *)
(***************************************************************************)
\* a loop over future_to_url that does not wait for completion
ReadyAny == {t \in DOMAIN tasks : t \notin yielded}

\* futures as_completed may hand out next
Ready == {t \in DOMAIN tasks : t \notin yielded /\ Terminal(t)}

\* a loop body without the try/except around future.result()
AfterResultUncaught(t) ==
    IF tasks[t].state = "failure" THEN "unwinding"
    ELSE IF tasks[t].filename.href.ext = ".tar.xz" THEN "lzma"
    ELSE "as_completed"

\* a loop body that calls decompress_artifact after the try statement
AfterResultExtractsAll(t) ==
    IF tasks[t].filename.href.ext = ".tar.xz" THEN "lzma" ELSE "as_completed"

\* try: data = future.result()  except Exception: print(...)
\* else: decompress_artifact(data, version)
AfterResult(t) ==
    IF tasks[t].state = "failure" THEN "as_completed"
    ELSE IF tasks[t].filename.href.ext = ".tar.xz" THEN "lzma"
    ELSE "as_completed"

NextCompleted ==
    /\ pc = "as_completed"
    /\ \E t \in Ready :
        /\ yielded' = yielded \cup {t}
        /\ pc' = AfterResult(t)
        /\ cur' = IF AfterResult(t) = "lzma" THEN t ELSE 0
        /\ abortCause' = IF AfterResult(t) = "unwinding" THEN "download" ELSE abortCause
    /\ UNCHANGED <<params, arch, i, tasks, extracted, discoveryError, call, fs, pure>>

\* decompress_artifact with the compressed file removed before the entries
\* are extracted
NextStepRemoveFirst(step) ==
    CASE step = "lzma" -> "rm_xz"
      [] step = "rm_xz" -> "untar"
      [] step = "untar" -> "rm_tar"
      [] step = "rm_tar" -> "process"
      [] step = "process" -> "as_completed"

\* the statements of decompress_artifact, in program order
NextStep(step) ==
    CASE step = "lzma" -> "untar"
      [] step = "untar" -> "rm_xz"
      [] step = "rm_xz" -> "rm_tar"
      [] step = "rm_tar" -> "process"
      [] step = "process" -> "as_completed"

\* statements that read the downloaded bytes and raise on what they find
CanRaise(step) == step \in {"lzma", "untar", "process"}

\* where main goes when a statement of decompress_artifact raises
OnExtractionError == "unwinding"

\* what one statement of decompress_artifact(artifact_path, version) does to
\* the files when the bytes it reads are sound: whether it raises, and the
\* files it leaves
Statement(step, files, artifact_path, content) ==
    LET d == artifact_path.dir
    IN  CASE step = "lzma" ->
                \* with lzma.open(artifact_path, "rb") as compressed,
                \*      open(tar_path, "wb") as f: shutil.copyfileobj(compressed, f)
                IF artifact_path \in files
                THEN [raised |-> FALSE, files |-> files \cup {tar_path(artifact_path)}]
                ELSE [raised |-> TRUE, files |-> files]
          [] step = "untar" ->
                \* with tarfile.open(tar_path) as tar: tar.extractall(...)
                IF tar_path(artifact_path) \in files
                THEN [raised |-> FALSE, files |-> files \cup Entries(d, content)]
                ELSE [raised |-> TRUE, files |-> files]
          [] step = "rm_xz" ->
                \* os.remove(artifact_path)
                [raised |-> artifact_path \notin files,
                 files |-> files \ {artifact_path}]
          [] step = "rm_tar" ->
                \* os.remove(tar_path)
                [raised |-> tar_path(artifact_path) \notin files,
                 files |-> files \ {tar_path(artifact_path)}]
          [] step = "process" ->
                \* process_artifact(os.path.split(tar_path)[0], version)
                process_artifact(files, d)

\* the statement when the bytes it reads are malformed: it raises, having
\* written what it had opened for writing
Malformed(step, files, artifact_path, content) ==
    [raised |-> TRUE,
     files |-> IF step = "lzma" /\ artifact_path \in files
               THEN files \cup {tar_path(artifact_path)}
               ELSE files]

\* one statement of decompress_artifact(data, version) on the current future
decompress_artifact ==
    /\ pc \in {"lzma", "untar", "rm_xz", "rm_tar", "process"}
    /\ \E sound \in BOOLEAN :
       \E content \in (IF pc = "untar" /\ sound THEN ArchiveContents ELSE {{}}) :
       \E r \in {IF sound
                 THEN Statement(pc, fs, output_path(tasks[cur].filename), content)
                 ELSE Malformed(pc, fs, output_path(tasks[cur].filename), content)} :
        /\ sound \/ CanRaise(pc)
        /\ fs' = r.files
        /\ IF ~r.raised
           THEN /\ pc' = NextStep(pc)
                /\ cur' = IF pc = "process" THEN 0 ELSE cur
                /\ extracted' = IF pc = "process" THEN extracted \cup {cur}
                                ELSE extracted
                /\ abortCause' = abortCause
           ELSE /\ pc' = OnExtractionError
                /\ abortCause' = IF OnExtractionError = "unwinding"
                                 THEN "extraction" ELSE abortCause
                /\ cur' = IF OnExtractionError = "unwinding" THEN cur ELSE 0
                /\ extracted' = extracted
    /\ UNCHANGED <<params, arch, i, tasks, yielded, discoveryError, call, pure>>

\* as_completed is exhausted; both with-blocks exit; main returns
ExitMain ==
    /\ pc = "as_completed"
    /\ yielded = DOMAIN tasks
    /\ pc' = "done"
    /\ UNCHANGED <<params, arch, i, tasks, yielded, cur, extracted, abortCause, discoveryError, call, fs, pure>>

\* an executor left with shutdown(wait=False)
shutdown_nowait == TRUE

\* ThreadPoolExecutor.__exit__: shutdown(wait=True) returns once every
\* submitted work item has run to its end
shutdown_wait == Pending = {}

\* ThreadPoolExecutor.__exit__ on an exception: shutdown(wait=True), then re-raise
Unwind ==
    /\ pc = "unwinding"
    /\ shutdown_wait
    /\ pc' = "aborted"
    /\ UNCHANGED <<params, arch, i, tasks, yielded, cur, extracted, abortCause, discoveryError, call, fs, pure>>

\* the process's exit status once main is over
ExitStatus == IF pc = "aborted" THEN 1 ELSE 0

Next ==
    \/ download_artifacts_with_retry(FALSE)
    \/ StartDownload
    \/ FinishDownload
    \/ NextCompleted
    \/ decompress_artifact
    \/ ExitMain
    \/ Unwind

\* a run of main
Spec == Init /\ [][Next]_vars

\* a run of main in which every request is answered, every worker thread and
\* the coordinating thread keep running, and every started download finishes
SpecFair ==
    /\ Spec
    /\ WF_vars(download_artifacts_with_retry(FALSE))
    /\ WF_vars(StartDownload)
    /\ WF_vars(FinishDownload)
    /\ WF_vars(NextCompleted)
    /\ WF_vars(decompress_artifact)
    /\ WF_vars(ExitMain)
    /\ WF_vars(Unwind)

(***************************************************************************)
(* One traced call of download_artifacts_with_retry, for any architecture *)
(***************************************************************************)
InitLocate ==
    /\ no_retry \in BOOLEAN
    /\ max_days_back \in 0..MaxDaysBack
    /\ workers = 1
    /\ base_url \in [compose : {"n.0", "0"}, stamp : RunDates]
    /\ arch \in 1..NArch
    /\ InitRun

TracedCall ==
    /\ call.status \in {"idle", "active"}
    /\ download_artifacts_with_retry(TRUE)

SpecLocate == InitLocate /\ [][TracedCall]_vars

(***************************************************************************)
(* generate_url_variants applied on its own                               *)
(***************************************************************************)
\* dates given as date_str or found in a URL
VariantDates == {20230301, 20240101, 20240102, 20240301}

\* what follows the date in the directory name: ".n.0", ".0", or a later
\* compose of the same day
Composes == {"n.0", "0", "n.1"}

InitVariants ==
    /\ NoRun
    /\ args \in [base_url : [compose : Composes, stamp : VariantDates],
                  date_str : VariantDates,
                  max_days_back : 0..MaxDaysBack]

ApplyVariants ==
    Returns(generate_url_variants(args.base_url, args.date_str, args.max_days_back))

SpecVariants == InitVariants /\ [][ApplyVariants]_vars

(***************************************************************************)
(* The isolation of the layer by process_artifact, applied on its own to  *)
(* an image layout: index.json and the blobs under blobs/sha256.          *)
(***************************************************************************)
\* hex digests of the manifest blobs and of the layer blobs of a layout
ManifestHexes == {"m1", "m2"}
LayerHexes == {"l1", "l2"}

\* a descriptor: {"digest": "sha256:<hex>"}
Descriptors(hexes) == [digest : {<<"sha256", h>> : h \in hexes}]

NonEmptySeqs(S, n) == UNION {[1..k -> S] : k \in 1..n}

\* a blob file: a manifest (JSON with its layers) or the bytes of a layer,
\* which its digest determines
ManifestBlob(layers) == [layers |-> layers, bytes |-> "json"]
LayerBlob(h) == [layers |-> <<>>, bytes |-> h]

\* the image layouts an archive can hold
Layouts ==
    {[index |-> [manifests |-> ms],
      blobs |-> [h \in ManifestHexes \cup LayerHexes |->
                    IF h \in ManifestHexes THEN ManifestBlob(ls[h]) ELSE LayerBlob(h)]] :
        ms \in NonEmptySeqs(Descriptors(ManifestHexes), MaxEntries),
        ls \in [ManifestHexes -> NonEmptySeqs(Descriptors(LayerHexes), MaxEntries)]}

\* digest.split(":")[1]
split_digest(digest) == digest[2]

\* a reader that takes the newest (last) entry of a list
LastOf(list) == list[Len(list)]

\* list[0]
FirstOf(list) == list[1]

\* index_data["manifests"][0]["digest"].split(":")[1]
get_digest_from_index(index_data) == split_digest(FirstOf(index_data.manifests).digest)

\* the bytes shutil.copy writes to tar_name
copy_layer_blob_to_tar(layout, digest) ==
    LET manifest_data == layout.blobs[digest]
        layers_digest == split_digest(FirstOf(manifest_data.layers).digest)
    IN  layout.blobs[layers_digest].bytes

\* the isolated layer file: its name and its bytes
IsolatedLayer(layout) ==
    [tar_name |-> get_tar_name,
     bytes |-> copy_layer_blob_to_tar(layout, get_digest_from_index(layout.index))]

InitLayer ==
    /\ NoRun
    /\ args \in Layouts

ApplyLayer == Returns(IsolatedLayer(args))

SpecLayer == InitLayer /\ [][ApplyLayer]_vars

(***************************************************************************)
(* The version label of process_artifact, applied on its own.  A string   *)
(* is the sequence of its characters.                                     *)
(***************************************************************************)
\* the letters met in version labels, as <<upper case, lower case>>
CasePairs == {<<"R", "r">>, <<"A", "a">>, <<"W", "w">>, <<"H", "h">>,
              <<"I", "i">>, <<"D", "d">>, <<"E", "e">>, <<"F", "f">>}

\* one character of str.lower()
lower_char(c) ==
    IF \E p \in CasePairs : p[1] = c
    THEN (CHOOSE p \in CasePairs : p[1] = c)[2]
    ELSE c

\* a comparison that forgets to fold the case
str_same(str) == str

\* version.lower()
str_lower(str) == [k \in 1..Len(str) |-> lower_char(str[k])]

rawhide == <<"r", "a", "w", "h", "i", "d", "e">>

\* rendered_version = "rawhide" if version.lower() == "rawhide" else f"f{version}"
rendered_version(version) ==
    IF str_lower(version) = rawhide THEN rawhide ELSE <<"f">> \o version

\* a letter in lower and in upper case
Spellings(c) == {c} \cup {p[1] : p \in {q \in CasePairs : q[2] = c}}

RECURSIVE AnyCase(_)
\* the spellings of a word in every mix of upper and lower case
AnyCase(word) ==
    IF word = <<>> THEN {<<>>}
    ELSE {<<c>> \o rest : c \in Spellings(Head(word)), rest \in AnyCase(Tail(word))}

\* version labels given on the command line
Versions ==
    AnyCase(rawhide)
    \cup {<<"4", "0">>, <<"4", "1">>, <<>>, <<"f", "4", "0">>,
          <<"r", "a", "w", "h", "i", "d">>,
          <<"R", "a", "w", "h", "i", "d", "e", "4">>}

InitRender ==
    /\ NoRun
    /\ args \in [version : Versions]

\* template.render(version=rendered_version, tar_name=tar_name)
ApplyRender ==
    Returns([version |-> rendered_version(args.version), tar_name |-> get_tar_name])

SpecRender == InitRender /\ [][ApplyRender]_vars


(***************************************************************************)
(* Properties                                                              *)
(***************************************************************************)
RunOver == pc \in {"done", "aborted"}
ExtractionSteps == {"lzma", "untar", "rm_xz", "rm_tar", "process"}
Failed == {t \in DOMAIN tasks : tasks[t].state = "failure"}
Succeeded == {t \in DOMAIN tasks : tasks[t].state = "success"}

\* the traced call has made n requests
NProbed == Len(call.probed)
\* the hrefs of a listing that end in .tar.xz and name the architecture
Matching(links, a) ==
    SelectSeq(links, LAMBDA h : h.ext = ".tar.xz" /\ h.arch = architectures[a])
\* the call handed back exactly the matching links of its last listing, each
\* joined to the URL that was requested last
ResultIsLastListing ==
    /\ Len(call.result) = Len(Matching(call.last.links, call.arch))
    /\ \A k \in 1..Len(call.result) :
        /\ call.result[k].url.href = Matching(call.last.links, call.arch)[k]
        /\ call.result[k].url.dir = call.probed[NProbed]
        /\ call.result[k].filename.arch = architectures[call.arch]
        /\ call.result[k].filename.href = call.result[k].url.href
AllEmpty == \A k \in 1..NProbed : call.outcomes[k] \in {"empty", "notfound"}
\* main went on to the next architecture without submitting anything
Skipped ==
    /\ arch = call.arch + 1
    /\ tasks = <<>>
    /\ pc = (IF call.arch = NArch THEN "as_completed" ELSE "locate")
    /\ abortCause = ""

\* C1: with retry enabled the variants are requested one at a time, newest
\* first (the k-th request is base_url with the date of k-1 days earlier), no
\* request follows a non-empty listing, and a non-empty listing is what the
\* call returns.
C1_FirstNonEmptyVariant ==
    (~no_retry /\ call.status # "idle") =>
        /\ NProbed = Len(call.outcomes)
        /\ NProbed <= max_days_back + 1
        /\ \A k \in 1..NProbed :
            call.probed[k] =
                [base_url EXCEPT !.stamp = get_previous_date(base_url.stamp, k - 1)]
        /\ \A k \in 1..(NProbed - 1) :
            /\ call.probed[k].stamp > call.probed[k + 1].stamp
            /\ call.outcomes[k] # "found"
        /\ call.outcomes[NProbed] = "found" =>
            /\ call.status = "returned"
            /\ call.result # <<>>
            /\ ResultIsLastListing
        /\ call.result # <<>> => call.outcomes[NProbed] = "found"

\* C1 witness: the newest variant is empty, the second is not, and older
\* variants exist that are never requested
C1_Witness ==
    /\ ~no_retry
    /\ max_days_back = MaxDaysBack
    /\ call.status = "returned"
    /\ NProbed = 2
    /\ call.outcomes = <<"empty", "found">>
    /\ Len(call.result) = 2
    /\ call.probed[2].stamp = 20231231

\* C2: with retry enabled, no variant is requested after a request that
\* failed with a non-recoverable error (an error is the call's last request).
C2_StopsAtFatalError ==
    (~no_retry /\ call.status # "idle") =>
        \A k \in 1..(NProbed - 1) : call.outcomes[k] # "error"

\* C3: no statement of decompress_artifact runs while a submitted download
\* is still queued or running.
C3_Barrier == pc \in ExtractionSteps => Pending = {}

\* C3 as amended: extraction starts only when every architecture has been
\* located and its downloads submitted, and only for a future that has
\* completed; sibling downloads may still be pending.
C3_SubmittedAndOwnDone ==
    pc \in ExtractionSteps =>
        /\ arch = NArch + 1
        /\ cur \in yielded
        /\ Terminal(cur)

\* C3 witness: an extraction under way while another download is pending
C3_Witness == pc \in ExtractionSteps /\ Pending # {} /\ Terminal(cur)


\* the loop body has just been handed a future that holds an exception
HandsOutFailure ==
    /\ pc = "as_completed"
    /\ yielded' # yielded
    /\ \E t \in yielded' \ yielded : tasks[t].state = "failure"

\* C4: a failed download is that future's outcome only: when the loop is
\* handed a failed future it changes no other future and goes on to the next
\* one (it neither aborts nor extracts); no failed download ever makes an
\* exception leave main; when main returns, every future has completed and
\* been handed out, and every successful one has been extracted.
C4_DownloadFailureIsolated ==
    /\ [][HandsOutFailure =>
            /\ pc' = "as_completed"
            /\ tasks' = tasks
            /\ abortCause' = abortCause
            /\ extracted' = extracted]_vars
    /\ [](abortCause \in {"", "discovery", "extraction"})
    /\ [](pc = "done" =>
            /\ Pending = {}
            /\ yielded = DOMAIN tasks
            /\ extracted = Succeeded)

\* C4 witness: main has returned; one download failed and its sibling,
\* handed out after it, was reported and extracted
C4_Witness ==
    /\ pc = "done"
    /\ Cardinality(Failed) = 1
    /\ Cardinality(Succeeded) = Len(tasks) - 1
    /\ Len(tasks) = MaxTasks
    /\ extracted = Succeeded

\* C5: when main is over after an extraction failed, every successfully
\* downloaded artifact other than the one whose extraction failed has been
\* extracted.
C5_ExtractionFailureIsolated ==
    (RunOver /\ abortCause = "extraction") =>
        \A t \in Succeeded \ {cur} : t \in extracted

\* C6: an error raised while locating one architecture does not keep main
\* from locating the remaining ones: every run that is over has located all
\* of aarch64, ppc64le, s390x, x86_64, and no discovery error has left main.
C6_DiscoveryFailureIsolated ==
    RunOver =>
        /\ arch = NArch + 1
        /\ abortCause # "discovery"

\* C6 as amended: with retry enabled an error raised while locating one
\* architecture does not keep main from locating the remaining ones nor from
\* downloading and extracting their artifacts; with no_retry set the error
\* leaves main at once, and the remaining architectures are not located.
C6_IsolatedUnderRetryOnly ==
    /\ (~no_retry =>
            /\ abortCause # "discovery"
            /\ (discoveryError # 0 => pc # "unwinding" \/ abortCause = "extraction")
            /\ (RunOver => arch = NArch + 1)
            /\ (pc = "done" => extracted = Succeeded /\ yielded = DOMAIN tasks))
    /\ (no_retry /\ discoveryError # 0 =>
            /\ abortCause = "discovery"
            /\ arch = discoveryError
            /\ pc \in {"unwinding", "aborted"})

\* C6 witness: with retry enabled the listing for aarch64 failed, and an
\* artifact of a later architecture was located, downloaded and extracted
C6_Witness ==
    /\ ~no_retry
    /\ discoveryError = 1
    /\ pc = "done"
    /\ \E t \in extracted : tasks[t].filename.arch = architectures[NArch]

\* a non-recoverable error occurred during the run
FatalOccurred == discoveryError # 0 \/ Failed # {} \/ abortCause # ""

\* C7: when the run is over its exit status is non-zero if and only if a
\* non-recoverable error occurred (a non-404 error in discovery, a failed
\* download, a failed extraction).
C7_ExitStatusReflectsErrors ==
    RunOver => (ExitStatus # 0 <=> FatalOccurred)

\* C8: with no_retry set the call makes exactly one request, of base_url
\* itself, whatever max_days_back is, and is then over: it returns the
\* matching links of that listing (none on a 404) or raises.
C8_NoRetrySingleLookup ==
    (no_retry /\ call.status # "idle") =>
        /\ call.probed = <<base_url>>
        /\ i = 0
        /\ call.status \in {"returned", "raised"}
        /\ call.status = "returned" => ResultIsLastListing

\* C8 witness: a lookup with the largest max_days_back returns after its one
\* request answered an empty listing
C8_Witness ==
    /\ no_retry
    /\ max_days_back = MaxDaysBack
    /\ call.status = "returned"
    /\ call.outcomes = <<"empty">>

C10_NoRetryFailsOn404 ==
    (no_retry /\ call.status # "idle"
        /\ call.last.kind = "status" /\ call.last.status = 404) =>
            /\ call.status = "raised"
            /\ pc = "unwinding"

\* C11: at every moment of a run the downloads in progress are at most
\* `workers`.
C11_BoundedParallelism == Cardinality(Running) <= workers

\* C11 witness: every worker of the largest pool is busy, or the only worker
\* is busy while a submitted download waits in the queue
C11_Witness ==
    /\ Cardinality(Running) = workers
    /\ workers = MaxWorkers \/ Queued # {}

\* destination path of a submitted download: os.path.join(output_dir, filename)
Destination(t) == tasks[t].filename

\* C12: no two downloads submitted in one run have the same destination
\* path, whatever the directory listings held.
C12_DestinationsUnique ==
    \A t, u \in DOMAIN tasks : t # u => Destination(t) # Destination(u)

\* the step that starts decompress_artifact for a future
StartsExtraction == pc \notin ExtractionSteps /\ pc' \in ExtractionSteps

\* C16: decompress_artifact is started only for a future that the loop is
\* handed at that step for the first time and that holds a result; it runs
\* only on a successfully downloaded artifact; no future is handed out twice;
\* a failed download is never extracted.
C16_ExtractionGatedOnOwnDownload ==
    /\ [][StartsExtraction =>
            /\ cur' \notin yielded
            /\ yielded' = yielded \cup {cur'}
            /\ tasks[cur'].state = "success"]_vars
    /\ [][yielded \subseteq yielded' /\ extracted \subseteq extracted']_vars
    /\ [](pc \in ExtractionSteps => cur \in yielded /\ tasks[cur].state = "success")
    /\ [](extracted \subseteq yielded /\ extracted \cap Failed = {})

\* C16 witness: main has returned; a failed download was handed out and not
\* extracted, its successful sibling was extracted
C16_Witness ==
    /\ pc = "done"
    /\ \E t \in Failed : t \in yielded /\ t \notin extracted
    /\ \E t \in Succeeded : t \in extracted

\* days of the months before month m of year y
DaysBeforeMonth(y, m) ==
    LET cum == <<0, 31, 59, 90, 120, 151, 181, 212, 243, 273, 304, 334>>
    IN  cum[m] + (IF m > 2 /\ IsLeap(y) THEN 1 ELSE 0)

\* the number of the day a stamp names, counted from 1 January of year 1
DayNumber(d) ==
    LET y == d \div 10000
        m == (d \div 100) % 100
        dd == d % 100
        p == y - 1
    IN  365 * p + (p \div 4) - (p \div 100) + (p \div 400) + DaysBeforeMonth(y, m) + dd

\* the k-th URL is base with the date of k-1 days before `newest` in place of
\* its date, and nothing else changed
ShiftedFrom(urls, base, newest) ==
    \A k \in 1..Len(urls) :
        /\ urls[k].compose = base.compose
        /\ DayNumber(urls[k].stamp) = DayNumber(newest) - (k - 1)

HoldsToken(url, date_str) == url.stamp = date_str /\ url.compose \in {"n.0", "0"}

C15_VersionNormalized ==
    pc = "returned" =>
        ret.version = IF args.version \in AnyCase(rawhide)
                      THEN rawhide
                      ELSE <<"f">> \o args.version

\* C15 witness: "Rawhide" was rendered as "rawhide"
C15_Witness ==
    /\ pc = "returned"
    /\ args.version = <<"R", "a", "w", "h", "i", "d", "e">>
    /\ ret.version = rawhide

\* the manifest the first entry of the index names, and the blob the first
\* layer entry of that manifest names
FirstManifest(layout) == layout.blobs[layout.index.manifests[1].digest[2]]
FirstLayer(layout) == layout.blobs[FirstManifest(layout).layers[1].digest[2]]

\* two layouts with the same first manifest entry, the same first layer
\* entry in it and the same blob under that digest
SameFirsts(l1, l2) ==
    /\ l1.index.manifests[1] = l2.index.manifests[1]
    /\ FirstManifest(l1).layers[1] = FirstManifest(l2).layers[1]
    /\ FirstLayer(l1) = FirstLayer(l2)

\* C14: the isolated layer file holds the bytes of the blob named by the
\* first layer digest of the manifest named by the first manifest digest of
\* the index, and any layout that agrees on these gives the same file,
\* whatever its other manifest and layer entries are.
C14_FirstManifestFirstLayer ==
    pc = "returned" =>
        /\ ret.bytes = FirstLayer(args).bytes
        /\ \A other \in Layouts : SameFirsts(args, other) => IsolatedLayer(other) = ret

\* C14 witness: a layout with two manifests of two layers each, whose later
\* entries all name other blobs than the first ones
C14_Witness ==
    /\ pc = "returned"
    /\ Len(args.index.manifests) = 2
    /\ args.index.manifests[2] # args.index.manifests[1]
    /\ \A h \in ManifestHexes :
            /\ Len(args.blobs[h].layers) = 2
            /\ args.blobs[h].layers[2] # args.blobs[h].layers[1]
    /\ FirstManifest(args).layers[1] # args.blobs[args.index.manifests[2].digest[2]].layers[1]
    /\ ret.bytes = FirstLayer(args).bytes

\* the files in the directory of an architecture
DirFiles(d) == {f \in fs : f.dir = d}
\* the directory a future's artifact is downloaded to
DirOf(t) == output_path(tasks[t].filename).dir
\* no other artifact was submitted for the same directory
AloneInDir(t) == \A u \in DOMAIN tasks : u # t => DirOf(u) # DirOf(t)

CurXz == output_path(tasks[cur].filename)
CurTar == tar_path(CurXz)

\* C18: the compressed file is removed before the tar's entries are
\* extracted: it no longer exists when tar.extractall is about to run.
C18_RemovedBeforeExtract == pc = "untar" => CurXz \notin fs

\* C18 as amended: the stream is decompressed to the sibling tar path, then
\* the tar's entries are extracted while the compressed file still exists,
\* then the compressed file is removed, then the intermediate tar is deleted.
C18_ExtractedBeforeRemove ==
    [][(pc \in ExtractionSteps /\ pc' \in ExtractionSteps /\ pc' # pc) =>
            /\ cur' = cur
            /\ \/ pc = "lzma" /\ pc' = "untar"
                    /\ CurXz \in fs /\ fs' = fs \cup {CurTar}
               \/ pc = "untar" /\ pc' = "rm_xz"
                    /\ CurXz \in fs /\ CurXz \in fs' /\ CurTar \in fs
                    /\ \E content \in ArchiveContents :
                            fs' = fs \cup Entries(CurXz.dir, content)
               \/ pc = "rm_xz" /\ pc' = "rm_tar"
                    /\ CurXz \in fs /\ fs' = fs \ {CurXz} /\ CurTar \in fs'
               \/ pc = "rm_tar" /\ pc' = "process"
                    /\ CurTar \in fs /\ fs' = fs \ {CurTar}]_vars

\* C18 witness: the entries have been extracted and the compressed file is
\* still there, about to be removed
C18_Witness ==
    /\ pc = "rm_xz"
    /\ CurXz \in fs
    /\ CurTar \in fs
    /\ Blobs(CurXz.dir) \in fs

\* the isolated layer files and the Dockerfiles on disk
LayerFiles == {f \in fs : f.name = get_tar_name}
Dockerfiles == {f \in fs : f.name = <<"Dockerfile", "", "">>}

\* C19: when main has returned and every download and every extraction
\* succeeded, there are as many isolated layer files, and as many
\* Dockerfiles, as downloaded artifacts.
C19_OutputsNotOverwritten ==
    (pc = "done" /\ Failed = {} /\ extracted = DOMAIN tasks) =>
        /\ Cardinality(LayerFiles) = Len(tasks)
        /\ Cardinality(Dockerfiles) = Len(tasks)

=============================================================================
